---- MODULE Spec2Model ----
(***************************************************************************)
(* A model of package gotest: the Reporter capability, the StubReporter    *)
(* recorder, the NotFatal (ErrorsNotFatal) wrapper and the Cmd engine that *)
(* runs an external command and reconciles its results with expectations.  *)
(*                                                                         *)
(* Text is a sequence of atoms.  An atom is a character ("x", "\n", " ",   *)
(* a digit) or a fixed phrase of the program ("unexpected output") that    *)
(* contains no newline and is never split.                                 *)
(***************************************************************************)
EXTENDS Integers, Sequences, FiniteSets, TLC

VARIABLES cmd, st, hist, last

vars == <<cmd, st, hist, last>>

\* ------------------------------------------------------------- bounds ----

\* Longest text the external process writes to stdout or to stderr.
MaxLen == 1

\* Largest exit code of the external process.
MaxCode == 2

\* A reporter call is explored while the log holds at most this many atoms.
MaxLog == 2

\* --------------------------------------------------------------- text ----

NL == "\n"

RECURSIVE Xs(_)
Xs(n) == IF n = 0 THEN <<>> ELSE <<"x">> \o Xs(n - 1)

\* Texts of at most MaxLen atoms: a run of "x", with or without a final newline.
Texts == {Xs(n) : n \in 0..MaxLen} \cup {Xs(n) \o <<NL>> : n \in 0..(MaxLen - 1)}

\* Texts fed to the process as its standard input.
Inputs == {<<>>, <<"x">>, <<"x", NL>>}

\* Exit codes a process can exit with.
Codes == 0..MaxCode

HasSuffixNL(s) == Len(s) > 0 /\ s[Len(s)] = NL

Digit(n) == CASE n = 0 -> "0" [] n = 1 -> "1" [] n = 2 -> "2" [] n = 3 -> "3"
              [] n = 4 -> "4" [] n = 5 -> "5" [] n = 6 -> "6" [] n = 7 -> "7"
              [] n = 8 -> "8" [] n = 9 -> "9"

\* Decimal rendering of an integer, as the %d verb and Fprintln print it.
RECURSIVE Itoa(_)
Itoa(n) == IF n < 0 THEN <<"-">> \o Itoa(0 - n)
           ELSE IF n < 10 THEN <<Digit(n)>>
           ELSE Itoa(n \div 10) \o <<Digit(n % 10)>>

\* Operands of the variadic reporter methods.
StrV(s) == [kind |-> "string", s |-> s, n |-> 0]

IntV(n) == [kind |-> "int", s |-> <<>>, n |-> n]

ErrV(s) == [kind |-> "error", s |-> s, n |-> 0]

\* The text fmt prints for one operand (%s, %d and %v alike for these kinds).
FormatValue(v) == IF v.kind = "int" THEN Itoa(v.n) ELSE v.s

\* fmt.Fprintln: the operands separated by spaces, then a newline.
RECURSIVE Sprintln(_)
Sprintln(args) ==
    IF Len(args) = 0 THEN <<NL>>
    ELSE IF Len(args) = 1 THEN FormatValue(args[1]) \o <<NL>>
    ELSE FormatValue(args[1]) \o <<" ">> \o Sprintln(Tail(args))

IsVerb(a) == a \in {"%s", "%d"}

\* fmt.Fprintf: each verb of the format replaced by the next operand.
RECURSIVE Sprintf(_, _)
Sprintf(format, args) ==
    IF Len(format) = 0 THEN
        IF Len(args) = 0 THEN <<>> ELSE <<"%!(EXTRA)">>
    ELSE IF IsVerb(format[1]) THEN
        IF Len(args) = 0 THEN <<"%!(MISSING)">> \o Sprintf(Tail(format), args)
        ELSE FormatValue(args[1]) \o Sprintf(Tail(format), Tail(args))
    ELSE <<format[1]>> \o Sprintf(Tail(format), args)

\* ------------------------------------------------------ reporter calls ----

\* One call of a Reporter method.
Call(op, format, args) == [ev |-> "call", op |-> op, format |-> format, args |-> args, result |-> TRUE]

\* One evaluation of a check function of a Cmd: the slot, the actual value, the verdict.
Eval(slot, actual, verdict) == [ev |-> "eval", op |-> slot, format |-> <<>>, args |-> <<actual>>, result |-> verdict]

\* ------------------------------------------------------- StubReporter ----

\* A StubReporter as created: nothing logged, not failed, not killed.
StubReporter == [log |-> <<>>, failed |-> FALSE, killed |-> FALSE]

StubReporter_Helper(sr) == sr

StubReporter_Fail(sr) == [sr EXCEPT !.failed = TRUE]

StubReporter_Failed(sr) == sr.failed

\* Mutant: FailNow that forgets to call Fail.
StubReporter_FailNow_KillOnly(sr) == [sr EXCEPT !.killed = TRUE]

StubReporter_FailNow(sr) == [StubReporter_Fail(sr) EXCEPT !.killed = TRUE]

StubReporter_Killed(sr) == sr.killed

StubReporter_Log(sr, args) == [sr EXCEPT !.log = @ \o Sprintln(args)]

\* Mutant: the newline is added only after text that lacks one, not after no text.
StubReporter_Logf_SuffixOnly(sr, format, args) ==
    LET written == sr.log \o Sprintf(format, args)
    IN  [sr EXCEPT !.log = IF ~HasSuffixNL(written) THEN written \o <<NL>> ELSE written]

StubReporter_Logf(sr, format, args) ==
    LET oldLen == Len(sr.log)
        written == sr.log \o Sprintf(format, args)
    IN  [sr EXCEPT !.log = IF Len(written) = oldLen \/ ~HasSuffixNL(written)
                           THEN written \o <<NL>>
                           ELSE written]

StubReporter_Logged(sr) == sr.log

StubReporter_Error(sr, args) == StubReporter_Log(StubReporter_Fail(sr), args)

StubReporter_Errorf(sr, format, args) == StubReporter_Logf(StubReporter_Fail(sr), format, args)

StubReporter_Fatal(sr, args) == StubReporter_Log(StubReporter_FailNow(sr), args)

StubReporter_Fatalf(sr, format, args) == StubReporter_Logf(StubReporter_FailNow(sr), format, args)

\* Mutant: Reset that leaves the killed flag as it is.
StubReporter_Reset_KeepKilled(sr) == [sr EXCEPT !.log = <<>>, !.failed = FALSE]

StubReporter_Reset(sr) == [sr EXCEPT !.log = <<>>, !.failed = FALSE, !.killed = FALSE]

\* The StubReporter after one call of the Reporter interface.
StubReporter_Call(sr, c) ==
    CASE c.op = "Helper" -> StubReporter_Helper(sr)
      [] c.op = "Fail"   -> StubReporter_Fail(sr)
      [] c.op = "Failed" -> sr
      [] c.op = "FailNow" -> StubReporter_FailNow(sr)
      [] c.op = "Log"    -> StubReporter_Log(sr, c.args)
      [] c.op = "Logf"   -> StubReporter_Logf(sr, c.format, c.args)
      [] c.op = "Error"  -> StubReporter_Error(sr, c.args)
      [] c.op = "Errorf" -> StubReporter_Errorf(sr, c.format, c.args)
      [] c.op = "Fatal"  -> StubReporter_Fatal(sr, c.args)
      [] c.op = "Fatalf" -> StubReporter_Fatalf(sr, c.format, c.args)

\* ----------------------------------------------------------- NotFatal ----

\* Each method of the wrapper, as the call it makes on the wrapped Reporter.
\* Mutant: FailNow left to the embedded Reporter.
NotFatal_FailNow_Embedded == Call("FailNow", <<>>, <<>>)

NotFatal_FailNow == Call("Fail", <<>>, <<>>)

NotFatal_Fatal(args) == Call("Error", <<>>, args)

\* Mutant: Fatalf left to the embedded Reporter.
NotFatal_Fatalf_Embedded(format, args) == Call("Fatalf", format, args)

NotFatal_Fatalf(format, args) == Call("Errorf", format, args)

\* The call NotFatal{r} makes on r when it receives call c: the three methods
\* it defines are rerouted, the embedded Reporter serves every other method.
NotFatal_Call(c) ==
    CASE c.op = "FailNow" -> NotFatal_FailNow
      [] c.op = "Fatal"   -> NotFatal_Fatal(c.args)
      [] c.op = "Fatalf"  -> NotFatal_Fatalf(c.format, c.args)
      [] OTHER            -> c

\* The kinds of Reporter handed to the helpers: &st, or NotFatal{&st}.
Reporters == {"StubReporter", "NotFatal"}

\* The call that reaches the StubReporter st when call c is made on reporter t.
Inner(t, c) == IF t = "NotFatal" THEN NotFatal_Call(c) ELSE c

RECURSIVE InnerCalls(_, _)
InnerCalls(t, calls) ==
    IF Len(calls) = 0 THEN <<>> ELSE <<Inner(t, Head(calls))>> \o InnerCalls(t, Tail(calls))

RECURSIVE ApplyCalls(_, _)
ApplyCalls(sr, calls) ==
    IF Len(calls) = 0 THEN sr ELSE ApplyCalls(StubReporter_Call(sr, Head(calls)), Tail(calls))

\* ---------------------------------------------------------------- Cmd ----

\* An unset check function (nil).
Nil == [set |-> FALSE, accept |-> {}]

\* A check function, known by the set of values on which it returns true.
Check(accept) == [set |-> TRUE, accept |-> accept]

\* The zero value of Cmd.
ZeroCmd == [name |-> <<>>, args |-> <<>>, dir |-> <<>>,
            checkOut |-> Nil, checkErr |-> Nil, checkCode |-> Nil]

Command(name, args) == [ZeroCmd EXCEPT !.name = name, !.args = args]

CheckStdout(c, check) == [c EXCEPT !.checkOut = check]

CheckStderr(c, check) == [c EXCEPT !.checkErr = check]

CheckCode(c, check) == [c EXCEPT !.checkCode = check]

\* Mutant: the new expectation is added to the check already installed.
WantStdout_Conjoin(c, expected) ==
    [c EXCEPT !.checkOut = Check({actual \in Texts : actual = expected /\ (c.checkOut.set => actual \in c.checkOut.accept)})]

WantStdout(c, expected) == [c EXCEPT !.checkOut = Check({actual \in Texts : actual = expected})]

WantStderr(c, expected) == [c EXCEPT !.checkErr = Check({actual \in Texts : actual = expected})]

WantCode(c, expected) == [c EXCEPT !.checkCode = Check({actual \in Codes : actual = expected})]

Chdir(c, path) == [c EXCEPT !.dir = path]

\* strings.Join(args, " ")
RECURSIVE Join(_)
Join(args) ==
    IF Len(args) = 0 THEN <<>>
    ELSE IF Len(args) = 1 THEN args[1]
    ELSE args[1] \o <<" ">> \o Join(Tail(args))

\* What the operating system returns for one launch (exec.Cmd.Run): the error
\* e (nil, an *exec.ExitError, or another error), ExitCode(), Exited(), and
\* the captured output.
Exit(code, out, err) ==
    [e |-> IF code = 0 THEN "nil" ELSE "ExitError", exited |-> TRUE, code |-> code,
     stdout |-> out, stderr |-> err, msg |-> <<"exit status ">> \o Itoa(code)]

Signaled(out, err) ==
    [e |-> "ExitError", exited |-> FALSE, code |-> 0 - 1,
     stdout |-> out, stderr |-> err, msg |-> <<"signal: killed">>]

NotStarted ==
    [e |-> "error", exited |-> FALSE, code |-> 0,
     stdout |-> <<>>, stderr |-> <<>>, msg |-> <<"exec: not started">>]

Outcomes ==
    {Exit(code, out, err) : code \in Codes, out \in Texts, err \in Texts}
        \cup {Signaled(out, err) : out \in Texts, err \in Texts}
        \cup {NotStarted}

\* The local state of one call of Cmd.Run: the reporter calls and check
\* evaluations made so far, the locals code and ok, and how far the call got.
RunBegin ==
    [events |-> <<Call("Helper", <<>>, <<>>)>>, code |-> 0, ok |-> TRUE,
     started |-> FALSE, returned |-> FALSE, panic |-> <<>>]

Emit(s, event) == [s EXCEPT !.events = Append(@, event)]

Error(s, text) == Emit(s, Call("Error", <<>>, <<StrV(<<text>>)>>))

Errorf(s, format, args) == Emit(s, Call("Errorf", format, args))

\* Mutant: no test of the program name.
Run_Name_Unchecked(c, s) == s

\* if c.name == "" { panic(...) }
Run_Name(c, s) ==
    IF Len(c.name) = 0
    THEN [s EXCEPT !.panic = <<"gotest.Cmd not initialized; use gotest.Command to create Cmds">>]
    ELSE s

\* Mutant: no return after t.Fatal(e).
Run_Launch_NoReturn(oc, s) ==
    LET s1 == [s EXCEPT !.started = TRUE]
    IN  IF oc.e # "nil" THEN
            LET isExit == oc.e = "ExitError"
                code == IF isExit THEN oc.code ELSE 0
                ok == IF isExit THEN oc.exited ELSE FALSE
            IN  IF ~ok
                THEN [Emit(s1, Call("Fatal", <<>>, <<ErrV(oc.msg)>>)) EXCEPT !.code = code]
                ELSE [s1 EXCEPT !.code = code]
        ELSE s1

\* e := cmd.Run() and the classification of e
Run_Launch(oc, s) ==
    LET s1 == [s EXCEPT !.started = TRUE]
    IN  IF oc.e # "nil" THEN
            LET isExit == oc.e = "ExitError"
                code == IF isExit THEN oc.code ELSE 0
                ok == IF isExit THEN oc.exited ELSE FALSE
            IN  IF ~ok
                THEN [Emit(s1, Call("Fatal", <<>>, <<ErrV(oc.msg)>>)) EXCEPT !.code = code, !.returned = TRUE]
                ELSE [s1 EXCEPT !.code = code]
        ELSE s1

\* Mutant: with no check set, any output is accepted.
Run_CheckOut_NilAccepts(c, oc, s) ==
    IF ~c.checkOut.set THEN s
    ELSE
        LET verdict == oc.stdout \in c.checkOut.accept
            s1 == Emit(s, Eval("checkOut", StrV(oc.stdout), verdict))
        IN  IF ~verdict
            THEN [Error(s1, "incorrect output") EXCEPT !.ok = FALSE]
            ELSE s1

Run_CheckOut(c, oc, s) ==
    IF ~c.checkOut.set THEN
        IF Len(oc.stdout) > 0
        THEN [Error(s, "unexpected output") EXCEPT !.ok = FALSE]
        ELSE s
    ELSE
        LET verdict == oc.stdout \in c.checkOut.accept
            s1 == Emit(s, Eval("checkOut", StrV(oc.stdout), verdict))
        IN  IF ~verdict
            THEN [Error(s1, "incorrect output") EXCEPT !.ok = FALSE]
            ELSE s1

\* Mutant: the stderr check is skipped once the stdout check failed.
Run_CheckErr_AfterOut(c, oc, s) ==
    IF ~s.ok THEN s
    ELSE IF ~c.checkErr.set THEN
        IF Len(oc.stderr) > 0
        THEN [Error(s, "unexpected error output") EXCEPT !.ok = FALSE]
        ELSE s
    ELSE
        LET verdict == oc.stderr \in c.checkErr.accept
            s1 == Emit(s, Eval("checkErr", StrV(oc.stderr), verdict))
        IN  IF ~verdict
            THEN [Error(s1, "incorrect error output") EXCEPT !.ok = FALSE]
            ELSE s1

Run_CheckErr(c, oc, s) ==
    IF ~c.checkErr.set THEN
        IF Len(oc.stderr) > 0
        THEN [Error(s, "unexpected error output") EXCEPT !.ok = FALSE]
        ELSE s
    ELSE
        LET verdict == oc.stderr \in c.checkErr.accept
            s1 == Emit(s, Eval("checkErr", StrV(oc.stderr), verdict))
        IN  IF ~verdict
            THEN [Error(s1, "incorrect error output") EXCEPT !.ok = FALSE]
            ELSE s1

\* The exit-code check with an explicit check function.
Run_ExplicitCode(c, s) ==
    LET verdict == s.code \in c.checkCode.accept
        s1 == Emit(s, Eval("checkCode", IntV(s.code), verdict))
    IN  IF ~verdict
        THEN [Error(s1, "incorrect exit code") EXCEPT !.ok = FALSE]
        ELSE s1

\* The default exit-code policy.
Run_DefaultCode(oc, s) ==
    IF Len(oc.stderr) = 0 THEN
        IF s.code # 0
        THEN [Error(s, "non-zero exit code") EXCEPT !.ok = FALSE]
        ELSE s
    ELSE
        IF s.code = 0
        THEN [Error(s, "error output produced but exit code was 0") EXCEPT !.ok = FALSE]
        ELSE s

\* Mutant: the default exit-code policy is applied whatever ok is.
Run_CheckCode_NoSkip(c, oc, s) ==
    IF ~c.checkCode.set THEN Run_DefaultCode(oc, s) ELSE Run_ExplicitCode(c, s)

\* Mutant: the default exit-code policy wants 0 whatever stderr holds.
Run_CheckCode_ZeroOnly(c, oc, s) ==
    IF ~c.checkCode.set THEN
        IF s.ok /\ s.code # 0
        THEN [Error(s, "non-zero exit code") EXCEPT !.ok = FALSE]
        ELSE s
    ELSE Run_ExplicitCode(c, s)

\* Mutant: the explicit exit-code check too is skipped once ok is false.
Run_CheckCode_SkipAll(c, oc, s) ==
    IF ~s.ok THEN s
    ELSE IF ~c.checkCode.set THEN Run_DefaultCode(oc, s)
    ELSE Run_ExplicitCode(c, s)

Run_CheckCode(c, oc, s) ==
    IF ~c.checkCode.set THEN
        IF s.ok THEN Run_DefaultCode(oc, s) ELSE s
    ELSE Run_ExplicitCode(c, s)

\* The diagnostic block: the command, the input, both outputs, the exit code.
Run_Block(c, input, oc, s) ==
    LET s1 == IF Len(c.args) = 0
              THEN Errorf(s, <<"command: ", "%s">>, <<StrV(c.name)>>)
              ELSE Errorf(s, <<"command: ", "%s", " ", "%s">>, <<StrV(c.name), StrV(Join(c.args))>>)
        s2 == IF Len(input) = 0
              THEN Error(s1, "no input")
              ELSE Errorf(s1, <<"input:", NL, "%s">>, <<StrV(input)>>)
        s3 == IF Len(oc.stdout) = 0
              THEN Error(s2, "no output")
              ELSE Errorf(s2, <<"output:", NL, "%s">>, <<StrV(oc.stdout)>>)
        s4 == IF Len(oc.stderr) = 0
              THEN Error(s3, "no error output")
              ELSE Errorf(s3, <<"error output:", NL, "%s">>, <<StrV(oc.stderr)>>)
    IN  Errorf(s4, <<"exit code: ", "%d">>, <<IntV(s.code)>>)

\* Mutant: FailNow is called before the diagnostic block.
Run_Report_FailNowFirst(c, input, oc, s) ==
    IF ~s.ok THEN Run_Block(c, input, oc, Emit(s, Call("FailNow", <<>>, <<>>))) ELSE s

\* Mutant: the diagnostic block is reported after a passing run too.
Run_Report_Always(c, input, oc, s) ==
    IF ~s.ok THEN Emit(Run_Block(c, input, oc, s), Call("FailNow", <<>>, <<>>))
    ELSE Run_Block(c, input, oc, s)

\* if !ok { ... t.FailNow() }
Run_Report(c, input, oc, s) ==
    IF ~s.ok THEN Emit(Run_Block(c, input, oc, s), Call("FailNow", <<>>, <<>>)) ELSE s

\* Mutant: the checks stop at the first one that fails.
Run_ShortCircuit(c, input, oc) ==
    LET s1 == Run_Name(c, RunBegin)
        s2 == IF Len(s1.panic) > 0 THEN s1 ELSE Run_Launch(oc, s1)
        stop == Len(s2.panic) > 0 \/ s2.returned
        s3 == IF stop THEN s2 ELSE Run_CheckOut(c, oc, s2)
        s4 == IF stop \/ ~s3.ok THEN s3 ELSE Run_CheckErr(c, oc, s3)
        s5 == IF stop \/ ~s4.ok THEN s4 ELSE Run_CheckCode(c, oc, s4)
    IN  IF stop THEN s5 ELSE Run_Report(c, input, oc, s5)

\* One call c.Run(t, input) when the operating system answers oc: the local
\* state at the end of the call.
Run(c, input, oc) ==
    LET s1 == Run_Name(c, RunBegin)
        s2 == IF Len(s1.panic) > 0 THEN s1 ELSE Run_Launch(oc, s1)
        stop == Len(s2.panic) > 0 \/ s2.returned
        s3 == IF stop THEN s2 ELSE Run_CheckOut(c, oc, s2)
        s4 == IF stop THEN s3 ELSE Run_CheckErr(c, oc, s3)
        s5 == IF stop THEN s4 ELSE Run_CheckCode(c, oc, s4)
    IN  IF stop THEN s5 ELSE Run_Report(c, input, oc, s5)

\* -------------------------------------------------------- the helpers ----

\* The local state of one call of a helper: the calls made on t so far, and
\* in aux what the helper was given and what it returns.
Helper(aux) == [RunBegin EXCEPT !.events = <<>>] @@ [aux |-> aux]

\* t.Helper(), the first statement of a helper.
MarkHelper(s) == Emit(s, Call("Helper", <<>>, <<>>))

\* t.Fatal(args...)
Fatal(s, args) == Emit(s, Call("Fatal", <<>>, args))

\* Require(t, condition)
Require(condition) ==
    LET s == MarkHelper(Helper([condition |-> condition]))
    IN  IF ~condition THEN Fatal(s, <<StrV(<<"Required condition failed">>)>>) ELSE s

\* Mutant: Expect that reports when the values are equal.
Expect_Inverted(expected, actual) ==
    LET s == MarkHelper(Helper([expected |-> expected, actual |-> actual]))
    IN  IF actual = expected
        THEN Fatal(s, <<StrV(<<"Expected">>), expected, StrV(<<"but actual value was">>), actual>>)
        ELSE s

\* Expect(t, expected, actual)
Expect(expected, actual) ==
    LET s == MarkHelper(Helper([expected |-> expected, actual |-> actual]))
    IN  IF actual # expected
        THEN Fatal(s, <<StrV(<<"Expected">>), expected, StrV(<<"but actual value was">>), actual>>)
        ELSE s

\* The nil error, and the nil interface value.
NilV == [kind |-> "nil", s |-> <<"<nil>">>, n |-> 0]

\* NilError(t, e)
NilError(e) ==
    LET s == MarkHelper(Helper([e |-> e]))
    IN  IF e # NilV THEN Fatal(s, <<e>>) ELSE s

\* The releases of Go the package is built with: up to 1.20, and 1.21 or later.
GoVersions == {"go1.20", "go1.21"}

\* The value recover() yields.
PanicNilError == [kind |-> "error", s |-> <<"panic called with nil argument (obsolete)">>, n |-> 0]

\* recover() in the deferred function, while a panic with this value is under
\* way: panic(nil) is seen as a *runtime.PanicNilError since Go 1.21.
Recover(go, value) == IF value = NilV /\ go = "go1.21" THEN PanicNilError ELSE value

\* A function f handed to panics: whether it panics, and with which value.
Func(doesPanic, value) == [panics |-> doesPanic, value |-> value]

\* Mutant: a panic is recognised by the value recover() yields.
panics_ByValue(go, f) ==
    LET with == IF f.panics THEN Recover(go, f.value) ELSE NilV
    IN  [panicked |-> with # NilV, with |-> with, runs |-> 1]

\* panics(f): f is run once; the deferred function recovers when panicked is
\* still true, which is when f did not return.
panics(go, f) ==
    IF f.panics
    THEN [panicked |-> TRUE, with |-> Recover(go, f.value), runs |-> 1]
    ELSE [panicked |-> FALSE, with |-> NilV, runs |-> 1]

\* MustPanic(t, f): aux holds what panics returned and the value returned.
MustPanic(go, f) ==
    LET r == panics(go, f)
        s == MarkHelper(Helper([go |-> go, f |-> f, panicked |-> r.panicked,
                                runs |-> r.runs, ret |-> r.with]))
    IN  IF ~r.panicked THEN Fatal(s, <<StrV(<<"Expected panic did not occur">>)>>) ELSE s

\* Mutant: the three comparisons chained, so that the first mismatch ends them.
StubReporter_Expect_FirstOnly(sr, failed, killed, log, when) ==
    LET s0 == MarkHelper(Helper([sr |-> sr, failed |-> failed, killed |-> killed,
                                 log |-> log, when |-> when, after |-> sr]))
        s1 == IF StubReporter_Failed(sr) # failed
              THEN [Emit(s0, Call("Error", <<>>,
                        <<StrV(<<IF ~failed THEN "StubReporter marked failed"
                                 ELSE "StubReporter marked not failed">>), StrV(when)>>))
                    EXCEPT !.ok = FALSE]
              ELSE IF StubReporter_Killed(sr) # killed
              THEN [Emit(s0, Call("Error", <<>>,
                        <<StrV(<<IF ~killed THEN "StubReporter marked killed"
                                 ELSE "StubReporter marked not killed">>), StrV(when)>>))
                    EXCEPT !.ok = FALSE]
              ELSE IF StubReporter_Logged(sr) # log
              THEN [Emit(s0, Call("Errorf",
                        <<"%s", " StubReporter log is '", "%s", "'; expected '", "%s", "'">>,
                        <<StrV(when), StrV(StubReporter_Logged(sr)), StrV(log)>>))
                    EXCEPT !.ok = FALSE]
              ELSE s0
    IN  IF ~s1.ok THEN Emit(s1, Call("FailNow", <<>>, <<>>)) ELSE s1

\* sr.Expect(t, failed, killed, log, when): aux.after is sr at the end.
StubReporter_Expect(sr, failed, killed, log, when) ==
    LET s0 == MarkHelper(Helper([sr |-> sr, failed |-> failed, killed |-> killed,
                                 log |-> log, when |-> when, after |-> sr]))
        s1 == IF StubReporter_Failed(sr) # failed
              THEN [Emit(s0, Call("Error", <<>>,
                        <<StrV(<<IF ~failed THEN "StubReporter marked failed"
                                 ELSE "StubReporter marked not failed">>), StrV(when)>>))
                    EXCEPT !.ok = FALSE]
              ELSE s0
        s2 == IF StubReporter_Killed(sr) # killed
              THEN [Emit(s1, Call("Error", <<>>,
                        <<StrV(<<IF ~killed THEN "StubReporter marked killed"
                                 ELSE "StubReporter marked not killed">>), StrV(when)>>))
                    EXCEPT !.ok = FALSE]
              ELSE s1
        s3 == IF StubReporter_Logged(sr) # log
              THEN [Emit(s2, Call("Errorf",
                        <<"%s", " StubReporter log is '", "%s", "'; expected '", "%s", "'">>,
                        <<StrV(when), StrV(StubReporter_Logged(sr)), StrV(log)>>))
                    EXCEPT !.ok = FALSE]
              ELSE s2
    IN  IF ~s3.ok THEN Emit(s3, Call("FailNow", <<>>, <<>>)) ELSE s3

\* Combined output of at least this many bytes is reported shortened.
Threshold == 500

\* The bytes kept at each end of a shortened output.
Keep == 150

\* t.Errorf(format, args...)
ReportErrorf(s, format, args) == Emit(s, Call("Errorf", format, args))

\* Mutant: the tail of a shortened output starts right after the head.
RunCommand_Output_WholeTail(command, out, s) ==
    IF Len(out) # 0 THEN
        LET n == Len(out)
            s1 == ReportErrorf([s EXCEPT !.ok = FALSE], <<"%s", ": unexpected output:">>,
                               <<StrV(command)>>)
        IN  IF n < Threshold
            THEN ReportErrorf(s1, <<"%s">>, <<StrV(out)>>)
            ELSE ReportErrorf(s1, <<"%s", " ... ", "%s">>,
                              <<StrV(SubSeq(out, 1, Keep)), StrV(SubSeq(out, Keep + 1, n))>>)
    ELSE s

\* if len(out) != 0 { ... }: the combined output, whole or shortened.
RunCommand_Output(command, out, s) ==
    IF Len(out) # 0 THEN
        LET n == Len(out)
            s1 == ReportErrorf([s EXCEPT !.ok = FALSE], <<"%s", ": unexpected output:">>,
                               <<StrV(command)>>)
        IN  IF n < Threshold
            THEN ReportErrorf(s1, <<"%s">>, <<StrV(out)>>)
            ELSE ReportErrorf(s1, <<"%s", " ... ", "%s">>,
                              <<StrV(SubSeq(out, 1, Keep)), StrV(SubSeq(out, n - Keep + 1, n))>>)
    ELSE s

\* Mutant: the error of the command is reported, but does not end the test.
RunCommand_Error_NotFatal(command, oc, s) ==
    IF oc.e # "nil"
    THEN ReportErrorf(s, <<"%s", ": ", "%s">>, <<StrV(command), ErrV(oc.msg)>>)
    ELSE s

\* if e != nil { ... }
RunCommand_Error(command, oc, s) ==
    IF oc.e # "nil"
    THEN ReportErrorf([s EXCEPT !.ok = FALSE], <<"%s", ": ", "%s">>,
                      <<StrV(command), ErrV(oc.msg)>>)
    ELSE s

\* RunCommand(t, command, args...) when the operating system answers oc, whose
\* stdout field is the combined output.
RunCommand(command, oc) ==
    LET s0 == [Helper([command |-> command]) EXCEPT !.started = TRUE, !.code = oc.code]
        s1 == RunCommand_Output(command, oc.stdout, s0)
        s2 == RunCommand_Error(command, oc, s1)
    IN  IF ~s2.ok THEN Emit(s2, Call("FailNow", <<>>, <<>>)) ELSE s2

\* ------------------------------------------------------------- system ----

\* The program names and argument lists handed to Command.
Names == {<<"/bin/prog">>}

ArgLists == {<<>>, <<<<"arg">>>>}

\* Working directories handed to Chdir.
Dirs == {<<>>, <<"dir">>}

ContainsX(text) == \E i \in 1..Len(text) : text[i] = "x"

IsPrime(n) == n > 1 /\ \A d \in 2..(n - 1) : n % d # 0

\* Check functions handed to CheckStdout and CheckStderr, nil among them.
TextChecks == {Nil, Check({actual \in Texts : ContainsX(actual)})}

\* Check functions handed to CheckCode, nil among them.
CodeChecks == {Nil, Check({actual \in Codes : IsPrime(actual)})}

\* Texts handed to WantStdout and WantStderr.
WantTexts == {<<>>, <<"x">>}

\* The logs a StubReporter holds when it is handed to a helper.
PriorLogs == {<<>>, <<NL>>}

\* Which of Fail/Error/... and which of FailNow/Fatal/Fatalf reached the
\* StubReporter since it was created or last Reset.
FailOps == {"Fail", "FailNow", "Error", "Errorf", "Fatal", "Fatalf"}

KillOps == {"FailNow", "Fatal", "Fatalf"}

NoHist == [failCalled |-> FALSE, killCalled |-> FALSE]

RECURSIVE Record(_, _)
Record(h, calls) ==
    IF Len(calls) = 0 THEN h
    ELSE Record([failCalled |-> h.failCalled \/ Head(calls).op \in FailOps,
                 killCalled |-> h.killCalled \/ Head(calls).op \in KillOps],
                Tail(calls))

\* The events of a sequence that are reporter calls.
RECURSIVE CallsOf(_)
CallsOf(events) ==
    IF Len(events) = 0 THEN <<>>
    ELSE IF Head(events).ev = "call" THEN <<Head(events)>> \o CallsOf(Tail(events))
    ELSE CallsOf(Tail(events))

\* What the latest operation was and what it did: the reporter t it was given,
\* its input, what the operating system answered, the local state at its end.
Observed(op, t, input, oc, s) ==
    [op |-> op, t |-> t, input |-> input,
     oc |-> IF s.started THEN oc ELSE NotStarted, events |-> s.events,
     code |-> s.code, ok |-> s.ok, started |-> s.started, returned |-> s.returned,
     panic |-> s.panic, pre |-> st,
     aux |-> IF "aux" \in DOMAIN s THEN s.aux ELSE <<>>,
     calls |-> CallsOf(s.events),
     inner |-> InnerCalls(t, CallsOf(s.events))]

Plain(op, t, calls) ==
    Observed(op, t, <<>>, NotStarted, [RunBegin EXCEPT !.events = calls])

Init ==
    /\ cmd \in {ZeroCmd} \cup {Command(name, args) : name \in Names, args \in ArgLists}
    /\ st = StubReporter
    /\ hist = NoHist
    /\ last = Plain("Command", "StubReporter", <<>>)

\* The Cmd is explored while the StubReporter at hand holds one of PriorLogs.
Quiet == st.log \in PriorLogs

\* A configuration call on the Cmd: the reporter is not involved.
Configured(c) ==
    /\ cmd' = c
    /\ last' = Plain("Configure", "StubReporter", <<>>)
    /\ UNCHANGED <<st, hist>>

Call_CheckStdout ==
    /\ Quiet
    /\ \E check \in TextChecks : Configured(CheckStdout(cmd, check))

Call_CheckStderr ==
    /\ Quiet
    /\ \E check \in TextChecks : Configured(CheckStderr(cmd, check))

Call_CheckCode ==
    /\ Quiet
    /\ \E check \in CodeChecks : Configured(CheckCode(cmd, check))

Call_WantStdout ==
    /\ Quiet
    /\ \E expected \in WantTexts : Configured(WantStdout(cmd, expected))

Call_WantStderr ==
    /\ Quiet
    /\ \E expected \in WantTexts : Configured(WantStderr(cmd, expected))

Call_WantCode ==
    /\ Quiet
    /\ \E expected \in Codes : Configured(WantCode(cmd, expected))

Call_Chdir ==
    /\ Quiet
    /\ \E path \in Dirs : Configured(Chdir(cmd, path))

\* Calls made on reporter t, as they reach the StubReporter st.
Reported(op, t, input, oc, s) ==
    /\ last' = Observed(op, t, input, oc, s)
    /\ st' = ApplyCalls(st, last'.inner)
    /\ hist' = Record(hist, last'.inner)

\* cmd.Run(t, input), t being &st or NotFatal{&st}.  A Run leaves the Cmd as
\* it was, so the Run that directly follows another one is explored from the
\* state before the first.
Call_Run ==
    /\ Quiet
    /\ last.op # "Run"
    /\ \E t \in Reporters, input \in Inputs, oc \in Outcomes :
          Reported("Run", t, input, oc, Run(cmd, input, oc))
    /\ UNCHANGED cmd

\* st.Log()
Call_Log ==
    /\ st.log = <<>>
    /\ Reported("Log", "StubReporter", <<>>, NotStarted,
                [RunBegin EXCEPT !.events = <<Call("Log", <<>>, <<>>)>>])
    /\ UNCHANGED cmd

\* st.Reset()
Call_Reset ==
    /\ st' = StubReporter_Reset(st)
    /\ hist' = NoHist
    /\ last' = [Plain("Reset", "StubReporter", <<>>) EXCEPT !.pre = StubReporter]
    /\ UNCHANGED cmd

Next ==
    \/ Call_CheckStdout
    \/ Call_CheckStderr
    \/ Call_CheckCode
    \/ Call_WantStdout
    \/ Call_WantStderr
    \/ Call_WantCode
    \/ Call_Chdir
    \/ Call_Run
    \/ Call_Log
    \/ Call_Reset

Spec == Init /\ [][Next]_vars

\* ------------------------------------------- the Reporter on its own ----

\* Operand lists and formats handed to the logging methods.
Operands == {<<>>, <<StrV(<<"x">>)>>, <<StrV(<<"x", NL>>)>>, <<StrV(<<"x">>), IntV(10)>>}

Formats == {<<>>, <<"%s">>, <<"<", "%s", ">">>, <<"%d", NL>>}

\* One method call c on reporter t (&st or NotFatal{&st}).
Method(t, c) == Reported(c.op, t, <<>>, NotStarted, [RunBegin EXCEPT !.events = <<c>>])

Short == Len(st.log) <= MaxLog

T_Helper ==
    /\ Short
    /\ \E t \in Reporters : Method(t, Call("Helper", <<>>, <<>>))
    /\ UNCHANGED cmd

T_Failed ==
    /\ Short
    /\ \E t \in Reporters : Method(t, Call("Failed", <<>>, <<>>))
    /\ UNCHANGED cmd

T_Fail ==
    /\ Short
    /\ \E t \in Reporters : Method(t, Call("Fail", <<>>, <<>>))
    /\ UNCHANGED cmd

T_FailNow ==
    /\ Short
    /\ \E t \in Reporters : Method(t, Call("FailNow", <<>>, <<>>))
    /\ UNCHANGED cmd

T_Log ==
    /\ Short
    /\ \E t \in Reporters, args \in Operands : Method(t, Call("Log", <<>>, args))
    /\ UNCHANGED cmd

T_Logf ==
    /\ Short
    /\ \E t \in Reporters, format \in Formats, args \in Operands : Method(t, Call("Logf", format, args))
    /\ UNCHANGED cmd

T_Error ==
    /\ Short
    /\ \E t \in Reporters, args \in Operands : Method(t, Call("Error", <<>>, args))
    /\ UNCHANGED cmd

T_Errorf ==
    /\ Short
    /\ \E t \in Reporters, format \in Formats, args \in Operands : Method(t, Call("Errorf", format, args))
    /\ UNCHANGED cmd

T_Fatal ==
    /\ Short
    /\ \E t \in Reporters, args \in Operands : Method(t, Call("Fatal", <<>>, args))
    /\ UNCHANGED cmd

T_Fatalf ==
    /\ Short
    /\ \E t \in Reporters, format \in Formats, args \in Operands : Method(t, Call("Fatalf", format, args))
    /\ UNCHANGED cmd

\* st.Reset(), with the StubReporter as it was before kept in last.pre.
T_Reset ==
    /\ st' = StubReporter_Reset(st)
    /\ hist' = NoHist
    /\ last' = Plain("Reset", "StubReporter", <<>>)
    /\ UNCHANGED cmd

NextReporter ==
    \/ T_Helper
    \/ T_Failed
    \/ T_Fail
    \/ T_FailNow
    \/ T_Log
    \/ T_Logf
    \/ T_Error
    \/ T_Errorf
    \/ T_Fatal
    \/ T_Fatalf
    \/ T_Reset

SpecReporter == Init /\ [][NextReporter]_vars

\* ------------------------------------------ the helpers on their own ----

\* Values handed to Expect: two ints, or two strings.
ValuePairs ==
    {<<IntV(a), IntV(b)>> : a \in {5, 7}, b \in {5, 7}}
        \cup {<<StrV(a), StrV(b)>> : a \in {<<"a">>, <<"b">>}, b \in {<<"a">>, <<"b">>}}

\* Errors handed to NilError.
Errors == {NilV, ErrV(<<"oops">>)}

\* Functions handed to MustPanic: one that returns, and ones that panic with
\* a string, an int and nil.
Funcs ==
    {Func(FALSE, NilV), Func(TRUE, StrV(<<"oops">>)), Func(TRUE, IntV(97)), Func(TRUE, NilV)}

\* The StubReporters examined by Expect, and the logs expected of them.
ExpectLogs == {<<>>, <<"x", NL>>}

Examined == [log : ExpectLogs, failed : BOOLEAN, killed : BOOLEAN]

Whens == {<<>>, <<"after">>}

\* The combined output of a command: n bytes, "a" first and "b" or a newline
\* last, "m" at the places a shortened report leaves out, "x" elsewhere.
Out(n, nl) ==
    [i \in 1..n |-> IF i = 1 THEN "a"
                    ELSE IF i = n THEN (IF nl THEN NL ELSE "b")
                    ELSE IF i > Keep /\ i <= n - Keep THEN "m"
                    ELSE "x"]

OutLens == {0, 1, 2, 301, 499, 500, 501, 650}

OutTexts == {Out(n, nl) : n \in OutLens, nl \in BOOLEAN}

\* What the operating system returns to RunCommand.
CommandOutcomes ==
    {Exit(code, out, <<>>) : code \in {0, 1, 13}, out \in OutTexts}
        \cup {Signaled(out, <<>>) : out \in OutTexts}
        \cup {NotStarted}

H_Require ==
    /\ Quiet
    /\ \E t \in Reporters, condition \in BOOLEAN :
          Reported("Require", t, <<>>, NotStarted, Require(condition))
    /\ UNCHANGED cmd

H_Expect ==
    /\ Quiet
    /\ \E t \in Reporters, pair \in ValuePairs :
          Reported("Expect", t, <<>>, NotStarted, Expect(pair[1], pair[2]))
    /\ UNCHANGED cmd

H_NilError ==
    /\ Quiet
    /\ \E t \in Reporters, e \in Errors :
          Reported("NilError", t, <<>>, NotStarted, NilError(e))
    /\ UNCHANGED cmd

H_MustPanic ==
    /\ Quiet
    /\ \E t \in Reporters, go \in GoVersions, f \in Funcs :
          Reported("MustPanic", t, <<>>, NotStarted, MustPanic(go, f))
    /\ UNCHANGED cmd

\* sr.Expect(t, failed, killed, log, when), sr being another StubReporter than
\* the one t reports to.
H_StubExpect ==
    /\ Quiet
    /\ \E t \in Reporters, sr \in Examined, failed \in BOOLEAN, killed \in BOOLEAN,
          log \in ExpectLogs, when \in Whens :
          Reported("StubReporter.Expect", t, <<>>, NotStarted,
                   StubReporter_Expect(sr, failed, killed, log, when))
    /\ UNCHANGED cmd

H_RunCommand ==
    /\ Quiet
    /\ \E t \in Reporters, oc \in CommandOutcomes :
          Reported("RunCommand", t, <<>>, oc, RunCommand(cmd.name, oc))
    /\ UNCHANGED cmd

NextHelpers ==
    \/ H_Require
    \/ H_Expect
    \/ H_NilError
    \/ H_MustPanic
    \/ H_StubExpect
    \/ H_RunCommand
    \/ Call_Log
    \/ Call_Reset

SpecHelpers == Init /\ [][NextHelpers]_vars

\* ------------------------------- the helpers and Cmd.Run together ----

\* The helpers that end a test through Fatal or FailNow, and Cmd.Run with
\* some of its checks set, each given &st or NotFatal{&st}.
NextFatal ==
    \/ H_Require
    \/ H_Expect
    \/ H_MustPanic
    \/ Call_WantStdout
    \/ Call_CheckStderr
    \/ Call_WantCode
    \/ Call_Run
    \/ Call_Log
    \/ Call_Reset

SpecFatal == Init /\ [][NextFatal]_vars

\* ------------------------------------------ properties of Cmd.Run ----

\* The latest operation was a Run, and what it was given.
RunDone == last.op = "Run"

\* The process was launched and exited with a code.
Exited == RunDone /\ last.started /\ last.oc.exited

\* The calls the latest operation made on its reporter, Helper (which marks
\* the caller for attribution and reports nothing) left out.
Reports == SelectSeq(last.calls, LAMBDA c : c.op # "Helper")

\* The check evaluations the latest operation made.
Evals == SelectSeq(last.events, LAMBDA e : e.ev = "eval")

ErrorCall(text) == Call("Error", <<>>, <<StrV(<<text>>)>>)

Said(text) == \E i \in 1..Len(last.calls) : last.calls[i] = ErrorCall(text)

\* The text a call adds to the log of a StubReporter.
Line(c) == StubReporter_Call(StubReporter, c).log

EndNL(text) == IF HasSuffixNL(text) THEN text ELSE text \o <<NL>>

\* What the three checks are to decide, from the Cmd and the process outcome.
OutFails ==
    IF cmd.checkOut.set THEN last.oc.stdout \notin cmd.checkOut.accept
    ELSE last.oc.stdout # <<>>

ErrFails ==
    IF cmd.checkErr.set THEN last.oc.stderr \notin cmd.checkErr.accept
    ELSE last.oc.stderr # <<>>

DefaultCodeFails ==
    \/ last.oc.stderr = <<>> /\ last.oc.code # 0
    \/ last.oc.stderr # <<>> /\ last.oc.code = 0

CodeFails ==
    IF cmd.checkCode.set THEN last.oc.code \notin cmd.checkCode.accept
    ELSE ~OutFails /\ ~ErrFails /\ DefaultCodeFails

Failing == OutFails \/ ErrFails \/ CodeFails

OutMessages == {"unexpected output", "incorrect output"}

ErrMessages == {"unexpected error output", "incorrect error output"}

CodeMessages == {"non-zero exit code", "error output produced but exit code was 0",
                 "incorrect exit code"}

\* 1, 2 or 3 for a failure message of the stdout, stderr or exit-code check; 0 otherwise.
CheckOf(c) ==
    IF c.op # "Error" \/ Len(c.args) # 1 \/ Len(c.args[1].s) # 1 THEN 0
    ELSE IF c.args[1].s[1] \in OutMessages THEN 1
    ELSE IF c.args[1].s[1] \in ErrMessages THEN 2
    ELSE IF c.args[1].s[1] \in CodeMessages THEN 3
    ELSE 0

\* The five lines of the diagnostic block, as they are to appear in a log.
CommandLine ==
    <<"command: ">> \o cmd.name
        \o (IF Len(cmd.args) = 0 THEN <<>> ELSE <<" ">> \o Join(cmd.args)) \o <<NL>>

InputLine ==
    IF last.input = <<>> THEN <<"no input", NL>> ELSE <<"input:", NL>> \o EndNL(last.input)

OutputLine ==
    IF last.oc.stdout = <<>> THEN <<"no output", NL>>
    ELSE <<"output:", NL>> \o EndNL(last.oc.stdout)

ErrorOutputLine ==
    IF last.oc.stderr = <<>> THEN <<"no error output", NL>>
    ELSE <<"error output:", NL>> \o EndNL(last.oc.stderr)

ExitCodeLine == <<"exit code: ", Digit(last.oc.code), NL>>

\* C1: when a Run whose process exited with a code has a failing check, its
\* reports are, in this order: one to three failure messages (stdout before
\* stderr before exit code, at most one per check), the command line, the
\* input line, the output line, the error-output line, the exit-code line,
\* and FailNow, once, as the last call.
C1_ReportOrder ==
    (Exited /\ Failing) =>
        LET r == Reports
            n == Len(r)
            m == n - 6
        IN  /\ m \in 1..3
            /\ \A i \in 1..m : CheckOf(r[i]) # 0
            /\ \A i \in 1..m, j \in 1..m : i < j => CheckOf(r[i]) < CheckOf(r[j])
            /\ Line(r[m + 1]) = CommandLine
            /\ Line(r[m + 2]) = InputLine
            /\ Line(r[m + 3]) = OutputLine
            /\ Line(r[m + 4]) = ErrorOutputLine
            /\ Line(r[m + 5]) = ExitCodeLine
            /\ r[n].op = "FailNow"
            /\ \A i \in 1..(n - 1) : r[i].op \in {"Error", "Errorf"}

\* A Run with all three checks failing, arguments, input and both outputs.
C1_Witness ==
    /\ Exited /\ OutFails /\ ErrFails /\ CodeFails
    /\ Len(cmd.args) > 0 /\ last.input # <<>>
    /\ last.oc.stdout # <<>> /\ last.oc.stderr # <<>>
    /\ st.killed

\* C2: a Run whose process exited with a code and whose checks all pass calls
\* no reporting method, and leaves the StubReporter as it was.
C2_SilentPass ==
    (Exited /\ ~Failing) => (Reports = <<>> /\ st = last.pre)

\* A passing Run with a stdout check set, output, and a log that held text before.
C2_Witness ==
    /\ Exited /\ ~Failing
    /\ cmd.checkOut.set /\ last.oc.stdout # <<>>
    /\ last.pre.log # <<>> /\ ~st.failed /\ ~st.killed

\* C3: with no exit-code check set, a Run whose stdout or stderr check failed
\* reports no exit-code message, whatever the exit code.
C3_DefaultCodeSkipped ==
    (Exited /\ ~cmd.checkCode.set /\ (OutFails \/ ErrFails)) =>
        LET r == Reports
        IN  \A i \in 1..Len(r) :
               /\ r[i] # ErrorCall("non-zero exit code")
               /\ r[i] # ErrorCall("error output produced but exit code was 0")
               /\ CheckOf(r[i]) # 3

\* The stdout check failed and the default exit-code check would have failed too.
C3_Witness ==
    /\ Exited /\ ~cmd.checkCode.set /\ OutFails /\ ~ErrFails
    /\ DefaultCodeFails /\ last.oc.code # 0

\* C4: with no exit-code check set and the stdout and stderr checks passed,
\* the Run passes exactly when stderr is empty and the code is 0, or stderr is
\* not empty and the code is not 0; otherwise its first report is "non-zero
\* exit code" (stderr empty) or "error output produced but exit code was 0"
\* (stderr not empty), and it fails.
C4_DefaultCodePolicy ==
    (Exited /\ ~cmd.checkCode.set /\ ~OutFails /\ ~ErrFails) =>
        IF \/ last.oc.stderr = <<>> /\ last.oc.code = 0
           \/ last.oc.stderr # <<>> /\ last.oc.code # 0
        THEN Reports = <<>> /\ st = last.pre
        ELSE LET r == Reports
             IN  /\ Len(r) > 1
                 /\ r[1] = ErrorCall(IF last.oc.stderr = <<>>
                                     THEN "non-zero exit code"
                                     ELSE "error output produced but exit code was 0")
                 /\ CheckOf(r[2]) = 0
                 /\ r[Len(r)].op = "FailNow"
                 /\ st.failed

\* Error output that the stderr check accepts, and exit code 0.
C4_Witness ==
    /\ Exited /\ ~cmd.checkCode.set /\ ~OutFails /\ ~ErrFails
    /\ last.oc.stderr # <<>> /\ last.oc.code = 0
    /\ Said("error output produced but exit code was 0")

\* C5: with an exit-code check set, every Run whose process exited with a
\* code evaluates it once, on the exit code, also after a failed stdout or
\* stderr check, and reports "incorrect exit code" exactly when it returns false.
C5_ExplicitCodeAlways ==
    (Exited /\ cmd.checkCode.set) =>
        LET codeEvals == SelectSeq(Evals, LAMBDA e : e.op = "checkCode")
        IN  /\ Len(codeEvals) = 1
            /\ codeEvals[1].args = <<IntV(last.oc.code)>>
            /\ codeEvals[1].result = (last.oc.code \in cmd.checkCode.accept)
            /\ Said("incorrect exit code") <=> ~codeEvals[1].result
            /\ ~Said("non-zero exit code")
            /\ ~Said("error output produced but exit code was 0")

\* The stdout check failed, and the exit-code check was applied and failed too.
C5_Witness ==
    /\ Exited /\ cmd.checkCode.set /\ OutFails
    /\ last.oc.code \notin cmd.checkCode.accept
    /\ Said("incorrect exit code")

\* C6: for stdout, and likewise for stderr: with no check set the Run reports
\* "unexpected output" exactly when the captured text is not empty; with a
\* check set it reports "incorrect output" exactly when the check returns
\* false on the captured text; the stderr check does not depend on the
\* stdout check.
C6_TextChecks ==
    Exited =>
        /\ Said("unexpected output") <=> (~cmd.checkOut.set /\ last.oc.stdout # <<>>)
        /\ Said("incorrect output") <=> (cmd.checkOut.set /\ last.oc.stdout \notin cmd.checkOut.accept)
        /\ Said("unexpected error output") <=> (~cmd.checkErr.set /\ last.oc.stderr # <<>>)
        /\ Said("incorrect error output") <=> (cmd.checkErr.set /\ last.oc.stderr \notin cmd.checkErr.accept)
        /\ cmd.checkOut.set =>
              \E i \in 1..Len(Evals) : Evals[i] = Eval("checkOut", StrV(last.oc.stdout), ~OutFails)
        /\ cmd.checkErr.set =>
              \E i \in 1..Len(Evals) : Evals[i] = Eval("checkErr", StrV(last.oc.stderr), ~ErrFails)

\* The default stdout check and a set stderr check both failed in one Run.
C6_Witness ==
    /\ Exited /\ ~cmd.checkOut.set /\ cmd.checkErr.set
    /\ Said("unexpected output") /\ Said("incorrect error output")

\* C7: when the process could not be started, or ended without exiting with a
\* code, the Run calls Fatal once, with the error, and nothing else: no check
\* is evaluated and no line of the diagnostic block is reported, also when
\* Fatal returns.
C7_LaunchFailure ==
    (RunDone /\ last.started /\ ~last.oc.exited) =>
        /\ Reports = <<Call("Fatal", <<>>, <<ErrV(last.oc.msg)>>)>>
        /\ Evals = <<>>
        /\ st.log = last.pre.log \o last.oc.msg \o <<NL>>
        /\ st.failed

\* A process killed by a signal after it wrote output that the checks would
\* reject, with a reporter whose Fatal returns.
C7_Witness ==
    /\ RunDone /\ last.started /\ last.oc.e = "ExitError" /\ ~last.oc.exited
    /\ last.oc.stdout # <<>> /\ cmd.checkErr.set /\ cmd.checkCode.set
    /\ st.killed

\* C8: a Run of a Cmd with an empty program name panics with the fixed
\* message before any process is launched, and reports nothing: the
\* StubReporter is as it was.
C8_ZeroCmdPanics ==
    (RunDone /\ Len(cmd.name) = 0) =>
        /\ last.panic = <<"gotest.Cmd not initialized; use gotest.Command to create Cmds">>
        /\ ~last.started
        /\ Reports = <<>>
        /\ Evals = <<>>
        /\ st = last.pre

\* A zero-value Cmd, configured and run on a reporter that had logged before.
C8_Witness ==
    /\ RunDone /\ Len(cmd.name) = 0 /\ Len(last.panic) > 0
    /\ cmd.checkOut.set /\ last.pre.log # <<>>

\* --------------------------------- properties of the reporters ----

\* C9: a call on NotFatal{&st} reaches st as Fail for FailNow, as Error for
\* Fatal, as Errorf for Fatalf, and unchanged for every other method; FailNow,
\* Fatal and Fatalf of st are never called, so st is failed, not newly killed.
C9_NotFatalReroutes ==
    (last.t = "NotFatal" /\ Len(last.events) = 1 /\ last.events[1].ev = "call") =>
        LET c == last.events[1]
        IN  /\ c.op = "FailNow" => st = StubReporter_Fail(last.pre)
            /\ c.op = "Fatal" => st = StubReporter_Error(last.pre, c.args)
            /\ c.op = "Fatalf" => st = StubReporter_Errorf(last.pre, c.format, c.args)
            /\ c.op \in KillOps => st.failed
            /\ c.op \notin KillOps => (last.inner = <<c>> /\ st = StubReporter_Call(last.pre, c))
            /\ \A i \in 1..Len(last.inner) : last.inner[i].op \notin KillOps
            /\ st.killed = last.pre.killed
            /\ hist.killCalled => last.pre.killed

\* Fatalf on the wrapper of a fresh StubReporter: failed, logged, not killed.
C9_Witness ==
    /\ last.t = "NotFatal" /\ last.op = "Fatalf"
    /\ ~last.pre.failed /\ st.failed /\ ~st.killed /\ Len(st.log) > 1

\* C10: Failed() is true exactly when Fail, FailNow, Error, Errorf, Fatal or
\* Fatalf reached the StubReporter since its creation or last Reset, Killed()
\* exactly when FailNow, Fatal or Fatalf did; Killed() implies Failed(); and
\* no operation but Reset turns either flag from true to false.
C10_Flags ==
    /\ StubReporter_Failed(st) <=> hist.failCalled
    /\ StubReporter_Killed(st) <=> hist.killCalled
    /\ StubReporter_Killed(st) => StubReporter_Failed(st)
    /\ last.op # "Reset" =>
          /\ last.pre.failed => StubReporter_Failed(st)
          /\ last.pre.killed => StubReporter_Killed(st)

\* Fatalf on a StubReporter that had not failed: failed and killed.
C10_Witness ==
    /\ last.t = "StubReporter" /\ last.op = "Fatalf"
    /\ ~last.pre.failed /\ st.failed /\ st.killed /\ hist.killCalled

\* C11: after Reset the StubReporter is as a freshly created one: Failed()
\* false, Killed() false, Logged() empty; every Reporter call then has the
\* effect it has on a fresh StubReporter; and Reset applied twice gives what
\* Reset applied once gives.
C11_ResetFresh ==
    /\ last.op = "Reset" =>
          /\ st = StubReporter
          /\ ~StubReporter_Failed(st) /\ ~StubReporter_Killed(st)
          /\ StubReporter_Logged(st) = <<>>
    /\ StubReporter_Reset(StubReporter_Reset(st)) = StubReporter_Reset(st)
    /\ \A c \in {Call("Failed", <<>>, <<>>), Call("Fail", <<>>, <<>>),
                  Call("Log", <<>>, <<StrV(<<"x">>)>>), Call("Logf", <<>>, <<>>),
                  Call("Fatalf", <<"%s">>, <<StrV(<<"x">>)>>)} :
          StubReporter_Call(StubReporter_Reset(st), c) = StubReporter_Call(StubReporter, c)

\* Reset of a StubReporter that was failed, killed and had logged.
C11_Witness ==
    /\ last.op = "Reset"
    /\ last.pre.failed /\ last.pre.killed /\ last.pre.log # <<>>
    /\ st = StubReporter

\* The log ends with a newline that no newline precedes.
OneFinalNL(text) ==
    /\ HasSuffixNL(text)
    /\ Len(text) > 1 => text[Len(text) - 1] # NL

\* C12 as stated: after a Logf call the log ends with exactly one newline.
C12_LogfOneNewline ==
    last.op = "Logf" => OneFinalNL(st.log)

\* C12, amended: after a Logf call the log is the log before, then the
\* formatted text, then one newline more exactly when the formatted text is
\* empty or does not end with a newline; so the log ends with a newline, and
\* with exactly one when the formatted text is not empty and ends with at
\* most one.
C12_LogfNewline ==
    last.op = "Logf" =>
        LET c == last.events[1]
            text == Sprintf(c.format, c.args)
            added == IF text = <<>> \/ ~HasSuffixNL(text) THEN <<NL>> ELSE <<>>
        IN  /\ st.log = last.pre.log \o text \o added
            /\ HasSuffixNL(st.log)
            /\ (text # <<>> /\ (HasSuffixNL(text) => OneFinalNL(text))) => OneFinalNL(st.log)

\* Logf of an empty text on a log that ends with a newline: one more is added.
C12_Witness ==
    /\ last.op = "Logf" /\ Sprintf(last.events[1].format, last.events[1].args) = <<>>
    /\ HasSuffixNL(last.pre.log)
    /\ st.log = last.pre.log \o <<NL>>

\* ------------------------------------ properties of the helpers ----

\* How many calls of a method a sequence of calls holds.
Count(calls, op) == Len(SelectSeq(calls, LAMBDA c : c.op = op))

\* C13: sr.Expect(t, failed, killed, log, when) reports to t one error message
\* for each of failed, killed and log, in this order, whose actual value is
\* not the expected one, and then FailNow, once, exactly when one of them
\* differed; when all three match it reports nothing; sr is left as it was.
C13_ExpectReports ==
    last.op = "StubReporter.Expect" =>
        LET a == last.aux
            r == Reports
            onFailed == IF a.sr.failed = a.failed THEN <<>>
                        ELSE <<(IF a.sr.failed THEN <<"StubReporter marked failed">>
                                ELSE <<"StubReporter marked not failed">>)
                                   \o <<" ">> \o a.when \o <<NL>> >>
            onKilled == IF a.sr.killed = a.killed THEN <<>>
                        ELSE <<(IF a.sr.killed THEN <<"StubReporter marked killed">>
                                ELSE <<"StubReporter marked not killed">>)
                                   \o <<" ">> \o a.when \o <<NL>> >>
            onLog == IF a.sr.log = a.log THEN <<>>
                     ELSE <<a.when \o <<" StubReporter log is '">> \o a.sr.log
                               \o <<"'; expected '">> \o a.log \o <<"'", NL>> >>
            lines == onFailed \o onKilled \o onLog
            m == Len(lines)
        IN  /\ a.after = a.sr
            /\ Count(r, "FailNow") = (IF m > 0 THEN 1 ELSE 0)
            /\ Len(r) = (IF m > 0 THEN m + 1 ELSE 0)
            /\ \A i \in 1..m : r[i].op \in {"Error", "Errorf"} /\ Line(r[i]) = lines[i]
            /\ m > 0 => r[m + 1].op = "FailNow"
            /\ m = 0 => st = last.pre

\* All three fields differ, and the reporter told is a plain StubReporter.
C13_Witness ==
    /\ last.op = "StubReporter.Expect" /\ last.t = "StubReporter"
    /\ last.aux.sr.failed # last.aux.failed
    /\ last.aux.sr.killed # last.aux.killed
    /\ last.aux.sr.log # last.aux.log
    /\ Len(Reports) = 4 /\ st.killed

\* C14: Require calls t.Fatal, once, exactly when the condition is false;
\* Expect exactly when actual differs from expected; NilError exactly when
\* the error is not nil.  When the condition holds each calls only Helper,
\* and the StubReporter is as it was.
C14_FatalIffViolated ==
    last.op \in {"Require", "Expect", "NilError"} =>
        LET a == last.aux
            holds == CASE last.op = "Require" -> a.condition
                       [] last.op = "Expect" -> a.actual = a.expected
                       [] last.op = "NilError" -> a.e = NilV
        IN  /\ Count(last.calls, "Fatal") = (IF holds THEN 0 ELSE 1)
            /\ holds => (last.calls = <<Call("Helper", <<>>, <<>>)>> /\ st = last.pre)
            /\ ~holds => st.failed

\* Expect of two different strings on a StubReporter: failed and killed.
C14_Witness ==
    /\ last.op = "Expect" /\ last.t = "StubReporter"
    /\ last.aux.expected = StrV(<<"a">>) /\ last.aux.actual = StrV(<<"b">>)
    /\ st.log = last.pre.log \o <<"Expected", " ", "a", " ", "but actual value was", " ", "b", NL>>
    /\ st.killed

FirstBytes(out, k) == [i \in 1..k |-> out[i]]

LastBytes(out, k) == [i \in 1..k |-> out[Len(out) - k + i]]

Has(text, atom) == \E i \in 1..Len(text) : text[i] = atom

\* C16: RunCommand reports combined output of more than 500 bytes as its first
\* 150 bytes, " ... ", and its last 150 bytes, so that none of the bytes in
\* between, which are more than 200, is reported; output of 1 to 499 bytes is
\* reported whole.
C16_LongOutput ==
    (last.op = "RunCommand" /\ last.oc.stdout # <<>>) =>
        LET out == last.oc.stdout
            n == Len(out)
            shown == Line(Reports[2])
        IN  /\ Len(Reports) >= 2
            /\ n > 500 =>
                  /\ shown = EndNL(FirstBytes(out, 150) \o <<" ... ">> \o LastBytes(out, 150))
                  /\ ~Has(shown, "m")
                  /\ Cardinality({i \in 1..n : out[i] = "m"}) >= 200
            /\ n < 500 => shown = EndNL(out)

\* An output of 501 bytes, reported shortened in the log.
C16_Witness ==
    /\ last.op = "RunCommand" /\ Len(last.oc.stdout) = 501
    /\ Len(Reports) >= 2 /\ Has(Line(Reports[2]), " ... ")
    /\ Has(st.log, " ... ")

\* C17: RunCommand calls FailNow, once and as its last call, exactly when the
\* command wrote output, or could not be started, or ended with a code other
\* than 0; output and an error together are reported as the output first and
\* the error second, then FailNow; a command that exits with code 0 and no
\* output makes no call on t.
C17_RunCommandFails ==
    last.op = "RunCommand" =>
        LET oc == last.oc
            r == last.calls
            n == Len(r)
            failing == oc.stdout # <<>> \/ oc.e = "error" \/ oc.code # 0
        IN  /\ Count(r, "FailNow") = (IF failing THEN 1 ELSE 0)
            /\ failing => r[n].op = "FailNow"
            /\ ~failing => (r = <<>> /\ st = last.pre)
            /\ (oc.stdout # <<>> /\ oc.code # 0) =>
                  /\ n = 4
                  /\ Line(r[1]) = cmd.name \o <<": unexpected output:", NL>>
                  /\ Has(Line(r[2]), "a")
                  /\ Line(r[3]) = cmd.name \o <<": ">> \o oc.msg \o <<NL>>

\* Output and exit code 13 in one run, on a StubReporter.
C17_Witness ==
    /\ last.op = "RunCommand" /\ last.t = "StubReporter"
    /\ last.oc.stdout # <<>> /\ last.oc.code = 13
    /\ Len(last.calls) = 4 /\ st.killed

\* ------------------------------- further properties of Cmd.Run ----

\* The check function func(actual string) bool { return actual == "" }.
EmptyOnly == Check({actual \in Texts : actual = <<>>})

\* The calls the latest Run would have made with the Cmd configured as c.
CallsWith(c) == CallsOf(Run(c, last.input, last.oc).events)

\* A sequence of calls with one failure message put in the place of another.
Reworded(calls, from, to) ==
    [i \in 1..Len(calls) |-> IF calls[i] = ErrorCall(from) THEN ErrorCall(to) ELSE calls[i]]

Blamed(k) == \E i \in 1..Len(last.calls) : CheckOf(last.calls[i]) = k

\* C19 as stated: in a Run whose process exited with a code, each of the
\* three checks is applied and its failure reported, whatever the checks
\* before it found.
C19_NoShortCircuit ==
    Exited =>
        /\ OutFails => Blamed(1)
        /\ ErrFails => Blamed(2)
        /\ (cmd.checkCode.set /\ last.oc.code \notin cmd.checkCode.accept) => Blamed(3)
        /\ (~cmd.checkCode.set /\ DefaultCodeFails) => Blamed(3)

\* C19, amended: the stdout check and the stderr check are both applied and
\* reported, and so is an exit-code check that was set, whatever the checks
\* before found; with no exit-code check set, the default exit-code policy
\* is applied only when the stdout and stderr checks both passed.
C19_ChecksInFull ==
    Exited =>
        /\ OutFails <=> Blamed(1)
        /\ ErrFails <=> Blamed(2)
        /\ cmd.checkCode.set => (Blamed(3) <=> last.oc.code \notin cmd.checkCode.accept)
        /\ ~cmd.checkCode.set => (Blamed(3) <=> (~OutFails /\ ~ErrFails /\ DefaultCodeFails))
        /\ Len(Evals) = (IF cmd.checkOut.set THEN 1 ELSE 0) + (IF cmd.checkErr.set THEN 1 ELSE 0)
                           + (IF cmd.checkCode.set THEN 1 ELSE 0)

\* Three checks set, all three applied and all three failed in one Run.
C19_Witness ==
    /\ Exited /\ cmd.checkOut.set /\ cmd.checkErr.set /\ cmd.checkCode.set
    /\ Len(Evals) = 3
    /\ Blamed(1) /\ Blamed(2) /\ Blamed(3)

\* A check function that accepts exactly one value.
Exactly(value) == [set |-> TRUE, accept |-> {value}]

\* What each setter is to do to a Cmd: install its argument in its own slot,
\* and leave every other field as it is.
SetterEffects ==
    /\ \A check \in TextChecks :
          /\ CheckStdout(cmd, check) = [cmd EXCEPT !.checkOut = check]
          /\ CheckStderr(cmd, check) = [cmd EXCEPT !.checkErr = check]
    /\ \A check \in CodeChecks : CheckCode(cmd, check) = [cmd EXCEPT !.checkCode = check]
    /\ \A expected \in WantTexts :
          /\ WantStdout(cmd, expected) = [cmd EXCEPT !.checkOut = Exactly(expected)]
          /\ WantStderr(cmd, expected) = [cmd EXCEPT !.checkErr = Exactly(expected)]
    /\ \A expected \in Codes : WantCode(cmd, expected) = [cmd EXCEPT !.checkCode = Exactly(expected)]
    /\ \A path \in Dirs : Chdir(cmd, path) = [cmd EXCEPT !.dir = path]
    /\ CheckStdout(cmd, Nil).checkOut = ZeroCmd.checkOut
    /\ CheckStderr(cmd, Nil).checkErr = ZeroCmd.checkErr
    /\ CheckCode(cmd, Nil).checkCode = ZeroCmd.checkCode

\* The fields of the Cmd a step changes.
Changed == {f \in DOMAIN cmd : cmd'[f] # cmd[f]}

\* What a step may do to the Cmd.
FrameStep ==
    /\ SetterEffects
    /\ Changed \subseteq {"checkOut", "checkErr", "checkCode", "dir"}
    /\ Cardinality(Changed) <= 1
    /\ last'.op # "Configure" => cmd' = cmd
    /\ "checkOut" \in Changed =>
          \/ cmd'.checkOut \in TextChecks
          \/ \E expected \in WantTexts : cmd'.checkOut = Exactly(expected)
    /\ "checkErr" \in Changed =>
          \/ cmd'.checkErr \in TextChecks
          \/ \E expected \in WantTexts : cmd'.checkErr = Exactly(expected)
    /\ "checkCode" \in Changed =>
          \/ cmd'.checkCode \in CodeChecks
          \/ \E expected \in Codes : cmd'.checkCode = Exactly(expected)
    /\ (last'.op = "Run" /\ last'.started /\ last'.oc.exited) =>
          (last'.ok <=> ~Failing')

\* C20: over any interleaving of configuration calls and Runs, a setter
\* installs its argument in its own slot (Want* and Check* in the same one,
\* Check*(nil) the default) and changes no other slot, a Run leaves the Cmd
\* as it is, the program name and the arguments never change, and a Run
\* passes or fails as the checks then installed decide.
C20_Frame == [][FrameStep]_vars

\* A passing Run of a Cmd whose three checks and directory were all set.
C20_Witness ==
    /\ Exited /\ ~Failing /\ last.ok
    /\ cmd.checkOut.set /\ cmd.checkErr.set /\ cmd.checkCode.set /\ cmd.dir # <<>>
    /\ last.oc.stdout # <<>> /\ last.oc.stderr # <<>> /\ last.oc.code # 0

\* ------------------------------ properties of NotFatal with the helpers ----

\* The latest operation was a Require, Expect, MustPanic or Run that is to
\* fail: the condition was false, the values differed, f did not panic, or
\* the process was launched and did not exit with a code or failed a check.
HelperFails ==
    CASE last.op = "Require" -> ~last.aux.condition
      [] last.op = "Expect" -> last.aux.actual # last.aux.expected
      [] last.op = "MustPanic" -> ~last.aux.f.panics
      [] last.op = "Run" -> last.started /\ (~last.oc.exited \/ Failing)
      [] OTHER -> FALSE

\* C21: after a failing Require, Expect, MustPanic or Run (a failed check, or
\* a failed launch) that was given NotFatal{&st}, st is failed and not
\* killed, none of FailNow, Fatal, Fatalf reached st, the helper returned
\* without a panic, and the log of st is what it is when the same calls are
\* made on &st directly.
C21_NotFatalNeverKills ==
    (last.t = "NotFatal" /\ HelperFails) =>
        LET direct == ApplyCalls(last.pre, last.calls)
        IN  /\ StubReporter_Failed(st)
            /\ ~StubReporter_Killed(st)
            /\ ~hist.killCalled
            /\ last.panic = <<>>
            /\ StubReporter_Logged(st) = StubReporter_Logged(direct)
            /\ StubReporter_Logged(st) # StubReporter_Logged(last.pre)

\* A Run given NotFatal{&st} whose check failed: the block is logged, FailNow
\* was called on the wrapper, and st is failed and not killed.
C21_Witness ==
    /\ last.t = "NotFatal" /\ last.op = "Run" /\ Exited /\ Failing
    /\ Count(last.calls, "FailNow") = 1
    /\ st.failed /\ ~st.killed
    /\ ApplyCalls(last.pre, last.calls).killed

====
